---- MODULE Spec2Model ----
(***************************************************************************)
(* Model of the tool-calling orchestration of aws-bedrock-mcp-lambda:      *)
(*   src/lambda/mcp_handler.py  handler, process_query                     *)
(*   src/lambda/mcp_client.py   Message, MCPClient                         *)
(* One behaviour is one Lambda invocation: the handler reads the event,    *)
(* opens the tool session, seeds the history, asks the model and runs      *)
(* MCPClient._process_response, then closes the session.  Every await and  *)
(* every Bedrock request is a step of its own, so that what happens        *)
(* between two of them can be observed.                                    *)
(***************************************************************************)
EXTENDS Integers, Sequences, FiniteSets, TLC

VARIABLES
    pc,          \* position of the invocation in the code
    query,       \* the query string read from the event (EmptyText when missing)
    status,      \* statusCode of the returned envelope, 0 while running
    body,        \* what the envelope carries: "none", "usage", "result", "error"
    session,     \* the exit stack / ClientSession: "none", "open", "closed"
    closeCount,  \* number of calls of MCPClient.cleanup
    messages,    \* the message history (list of Message dicts)
    response,    \* the local `response` of _process_response
    items,       \* the content list the for loop of line 130 iterates over
    idx,         \* index in items of the next block of the for loop
    turn_count,  \* the local turn_count
    final_text,  \* the local final_text (list of fragments)
    result,      \* value returned by MCPClient.process_query (joined text)
    error,       \* the exception in flight: "none" or its kind
    nReq,        \* number of Bedrock converse requests issued
    nCalls,      \* number of session.call_tool calls issued
    nIter,       \* number of iterations of the while loop started
    nToolUse,    \* number of responses returned with stop reason tool_use
    nSingle,     \* number of those that hold exactly one toolUse block
    nRich,       \* number of responses returned whose content is not the plain one
    event,       \* the shape of the event handler was called with, "none" before
    server_path, \* the kind of script path connect_to_server is given
    command,     \* the command the tool host was started with, "none" if not started
    tools,       \* the tools the tool host advertises (response.tools of list_tools)
    bedrock_tools, \* the local bedrock_tools of MCPClient.process_query
    toolConfig,  \* the tools of the toolConfig of the latest converse request
    requestMessages, \* the messages of the latest converse request
    richMax      \* how many responses of a query may have a content that is not plain

vars == <<pc, query, status, body, session, closeCount, messages, response,
          items, idx, turn_count, final_text, result, error,
          nReq, nCalls, nIter, nToolUse, nSingle, nRich,
          event, server_path, command, tools, bedrock_tools, toolConfig,
          requestMessages, richMax>>

(***************************************************************************)
(* Bounds of the model and constants of the program.                       *)
(***************************************************************************)
\* Largest number of content blocks in one model response.
MaxBlocks == 2
\* Largest number of responses, in one query, whose content is not the plain
\* one (a single toolUse block for tool_use, a single text block otherwise).
MaxRich == 1
\* The longest history the operations of the history alone are applied to.
MaxHistory == 4
\* The longest list of tools a tool host advertises, where the list is drawn.
MaxTools == 2

\* A loop that allows one turn more than mcp_client.py:122 does.
MAX_TURNS_more == 10 + 1
\* mcp_client.py:122
MAX_TURNS == 10

\* The stop reasons of the Converse API the loop names, and one it does not.
StopReasons ==
    {"tool_use", "end_turn", "max_tokens", "stop_sequence",
     "content_filtered", "other"}

TerminalReasons == {"end_turn", "max_tokens", "stop_sequence", "content_filtered"}

\* The shapes of the event the handler reads the query from.
Events == {"absent", "null", "nokey", "empty", "query"}

\* mcp_handler.py:29, the default '' of a missing query.
EmptyText == 0
\* test_mcp_handler.py:9, the text of a query that is present.
QueryText == 1

(***************************************************************************)
(* Data: content blocks, model responses, turns and narrative fragments.   *)
(* A text is a number standing for its string; a toolUse block is known by *)
(* its toolUseId, which also stands for the tool's name and arguments.     *)
(***************************************************************************)
TextBlock(t) == [kind |-> "text", val |-> t]
ToolUseBlock(i) == [kind |-> "toolUse", val |-> i]

\* The text or toolUseId of block j of the n-th response: all distinct.
Tag(n, j) == n * (MaxBlocks + 1) + j + QueryText

BlockKinds == {"text", "toolUse"}
Shapes == UNION {[1..k -> BlockKinds] : k \in 0..MaxBlocks}

\* The usual content of a response: one tool request, or one text.
Plain(reason) == IF reason = "tool_use" THEN <<"toolUse">> ELSE <<"text">>

Content(n, shape) ==
    [j \in 1..Len(shape) |->
        IF shape[j] = "text" THEN TextBlock(Tag(n, j)) ELSE ToolUseBlock(Tag(n, j))]

\* The stop reasons under which the loop reads the content of the response
\* (lines 130 and 156); under the others the content is never looked at, and
\* the plain one stands for all.
ContentRead == {"tool_use", "end_turn"}

\* What bedrock.converse can return to the n-th request of a query.
Responses(n, rich) ==
    {[stopReason |-> r, content |-> Content(n, s)] :
        <<r, s>> \in {x \in StopReasons \X Shapes :
                         x[2] = Plain(x[1]) \/ (rich /\ x[1] \in ContentRead)}}

IsRich(r) == <<r.stopReason, [j \in 1..Len(r.content) |-> r.content[j].kind]>>
                 \notin {<<x, Plain(x)>> : x \in StopReasons}

\* The number of toolUse blocks of a content list.
NumToolUse(content) == Cardinality({j \in DOMAIN content : content[j].kind = "toolUse"})

NoResponse == [stopReason |-> "none", content |-> <<>>]

\* Message.user, Message.assistant, Message.tool_request, Message.tool_result
Message_user(text) == [role |-> "user", kind |-> "text", val |-> text]
Message_assistant(text) == [role |-> "assistant", kind |-> "text", val |-> text]
Message_tool_request(tool_use_id) ==
    [role |-> "assistant", kind |-> "toolUse", val |-> tool_use_id]
Message_tool_result(tool_use_id) ==
    [role |-> "user", kind |-> "toolResult", val |-> tool_use_id]

\* The fragments appended to final_text.
Fragment(k, v) == [kind |-> k, val |-> v]
ReceivedToolUse == Fragment("received toolUse request", EmptyText)
Thinking(t) == Fragment("Thinking", t)
CallingTool(i) == Fragment("Calling tool", i)
Notice(reason) == Fragment(reason, EmptyText)
Answer(t) == Fragment("answer", t)
MaxTurnsNotice == Fragment("Max turns reached", EmptyText)
Separator == Fragment("\n\n", EmptyText)

\* A join that puts nothing between the fragments.
Join_unseparated(fragments) == fragments
\* "\n\n".join(final_text): the fragments in order, a separator between two.
RECURSIVE Join(_)
Join(fragments) ==
    IF Len(fragments) = 0 THEN <<>>
    ELSE IF Len(fragments) = 1 THEN <<fragments[1]>>
    ELSE <<fragments[1], Separator>> \o Join(Tail(fragments))

\* event.get('queryStringParameters', {}) or {}, then .get('query', '')
\* event.get('queryStringParameters', {}) or {}: the parameters as a set of
\* pairs of key and value; absent and null parameters both give the empty one.
QueryParams(ev) ==
    CASE ev \in {"absent", "null", "nokey"} -> {}
      [] ev = "empty" -> {<<"query", EmptyText>>}
      [] ev = "query" -> {<<"query", QueryText>>}
\* A handler that takes only absent parameters as a missing query.
EventQuery_absentonly(ev) == IF ev = "absent" THEN EmptyText ELSE QueryText
\* query_params.get('query', '')
EventQuery(ev) ==
    IF \E kv \in QueryParams(ev) : kv[1] = "query"
    THEN (CHOOSE kv \in QueryParams(ev) : kv[1] = "query")[2]
    ELSE EmptyText

\* connect_to_server: the interpreter for a script path, by its extension.
\* A connect_to_server without the check of the suffix.
EndpointSupported_any(kind) == TRUE
EndpointSupported(kind) == kind \in {"py", "js"}
Command(kind) == IF kind = "py" THEN "python" ELSE "node"
\* The envelopes of the handler: the body before json.dumps.  NoBody stands
\* for the handler that has not returned.
NoBody == [message |-> "none"]
UsageBody ==
    [message |-> "Missing query parameter",
     usage |-> "Add a query parameter to your request"]
\* A handler that answers 200 whatever process_query did.
StatusCode_ok(err) == 200
\* 200 from the try, 500 from except Exception.
StatusCode(err) == IF err = "none" THEN 200 ELSE 500
Body(err, q, res) ==
    IF err = "none"
    THEN [query |-> q, result |-> res]
    ELSE [message |-> "Error processing query", error |-> err]

\* mcp_handler.py:68 always passes mcp_server.py.
ServerPath == "py"
\* The kinds of script path: the two that are supported, and another.
EndpointKinds == {"py", "js", "other"}

(***************************************************************************)
(* Tool descriptors and their conversion to the toolSpec of Bedrock.       *)
(***************************************************************************)
\* A tool as list_tools returns it: name, description and inputSchema, the
\* JSON schema of the arguments, which holds more than properties and
\* required.
Tool(name, description, properties, required) ==
    [name |-> name,
     description |-> description,
     inputSchema |-> [type |-> "object", title |-> name,
                      properties |-> properties, required |-> required]]

\* The schemas of the arguments of the tools of mcp_server.py.
StateSchema == [state |-> "string"]
PointSchema == [latitude |-> "number", longitude |-> "number"]
UrlSchema == [url |-> "string"]

\* mcp_server.py: get_alerts, get_forecast, visit_webpage.
ServerTools ==
    <<Tool("get_alerts", "Get weather alerts for a US state.",
           StateSchema, <<"state">>),
      Tool("get_forecast", "Get weather forecast for a location.",
           PointSchema, <<"latitude", "longitude">>),
      Tool("visit_webpage", "Visits a webpage at the given URL.",
           UrlSchema, <<"url">>)>>

\* MCPClient.process_query, lines 105-109: the dicts built from response.tools.
AvailableTools(listed) ==
    [i \in DOMAIN listed |->
        [name |-> listed[i].name,
         description |-> listed[i].description,
         input_schema |-> listed[i].inputSchema]]

\* A conversion that loses the required arguments.
ToolSpec_norequired(tool) ==
    [toolSpec |->
        [name |-> tool.name,
         description |-> tool.description,
         inputSchema |->
            [json |-> [type |-> "object",
                       properties |-> tool.input_schema.properties,
                       required |-> <<>>]]]]
\* Message.to_bedrock_format, lines 51-64.
ToolSpec(tool) ==
    [toolSpec |->
        [name |-> tool.name,
         description |-> tool.description,
         inputSchema |->
            [json |-> [type |-> "object",
                       properties |-> tool.input_schema.properties,
                       required |-> tool.input_schema.required]]]]
to_bedrock_format(tools_list) ==
    [i \in DOMAIN tools_list |-> ToolSpec(tools_list[i])]

(***************************************************************************)
(* The initial state: the Lambda runtime is about to call handler(event).  *)
(***************************************************************************)
InitFrame ==
    /\ pc = "handler"
    /\ query = EmptyText
    /\ status = 0
    /\ body = NoBody
    /\ session = "none"
    /\ closeCount = 0
    /\ messages = <<>>
    /\ response = NoResponse
    /\ items = <<>>
    /\ idx = 0
    /\ turn_count = 0
    /\ final_text = <<>>
    /\ result = <<>>
    /\ error = "none"
    /\ nReq = 0
    /\ nCalls = 0
    /\ nIter = 0
    /\ nToolUse = 0
    /\ nSingle = 0
    /\ nRich = 0
    /\ event = "none"
    /\ command = "none"
    /\ bedrock_tools = <<>>
    /\ toolConfig = <<>>
    /\ requestMessages = <<>>

\* The handler of this repository: the tool host is mcp_server.py with its
\* three tools.
Init ==
    /\ InitFrame
    /\ server_path = ServerPath
    /\ tools = ServerTools
    /\ richMax = MaxRich

\* What an invocation is given and never changes.
inputs == <<server_path, tools, richMax>>
toolVars == <<bedrock_tools, toolConfig, requestMessages>>
loopVars == <<response, items, idx, turn_count, final_text, result>>
tally == <<nToolUse, nSingle, nRich>>
counters == <<nReq, nCalls, nIter, tally>>
envelope == <<status, body>>

\* A loop that catches the error of a tool call or of a request and tries
\* the operation again.
Raise_retried(kind) ==
    /\ error' = kind
    /\ pc' = IF pc \in {"block", "request"} THEN pc ELSE "finally"

\* A process_query that closes the session at the end of the try body
\* instead of in a finally clause.
Raise_unclosed(kind) ==
    /\ error' = kind
    /\ pc' = "done"

\* An exception leaves MCPClient.process_query: the finally clause of
\* mcp_handler.process_query runs next.
Raise(kind) ==
    /\ error' = kind
    /\ pc' = "finally"

\* break, then return "\n\n".join(final_text)
Return(fragments) ==
    /\ final_text' = fragments
    /\ result' = Join(fragments)
    /\ pc' = "finally"

\* handler, lines 26-38: read the query, reject a missing one with 400.
Handler ==
    /\ pc = "handler"
    /\ \E ev \in Events :
        /\ event' = ev
        /\ query' = EventQuery(ev)
        /\ IF query' = EmptyText
           THEN /\ status' = 400
                /\ body' = UsageBody
                /\ pc' = "done"
           ELSE /\ pc' = "connect"
                /\ UNCHANGED envelope
    /\ UNCHANGED <<session, closeCount, messages, loopVars, error, counters,
                   inputs, command, toolVars>>

\* MCPClient.connect_to_server: the extension check, then the stdio
\* transport and the ClientSession are entered on the exit stack and the
\* session is initialized; any of the three can raise.
ConnectToServer ==
    /\ pc = "connect"
    /\ IF ~EndpointSupported(server_path)
       THEN Raise("ValueError") /\ UNCHANGED <<session, command>>
       ELSE \E outcome \in {"ok", "spawn_failed", "handshake_failed"} :
            CASE outcome = "ok" ->
                    /\ session' = "open"
                    /\ command' = Command(server_path)
                    /\ pc' = "list_tools"
                    /\ UNCHANGED error
              [] outcome = "spawn_failed" ->
                    /\ Raise("connect")
                    /\ UNCHANGED <<session, command>>
              [] outcome = "handshake_failed" ->
                    /\ session' = "open"
                    /\ command' = Command(server_path)
                    /\ Raise("connect")
    /\ UNCHANGED <<query, envelope, closeCount, messages, loopVars, counters,
                   event, inputs, toolVars>>

\* MCPClient.process_query, lines 102-111: seed the history with the user
\* turn, then list the tools of the session.
ListTools ==
    /\ pc = "list_tools"
    /\ messages' = <<Message_user(query)>>
    /\ \/ /\ bedrock_tools' = to_bedrock_format(AvailableTools(tools))
          /\ pc' = "first_request"
          /\ UNCHANGED error
       \/ /\ Raise("list_tools")
          /\ UNCHANGED bedrock_tools
    /\ UNCHANGED <<query, envelope, session, closeCount, loopVars, counters,
                   event, inputs, command, toolConfig, requestMessages>>

\* _make_bedrock_request: one converse call, which returns a response or raises.
\* next is where the code goes on with the response.
MakeBedrockRequest(next) ==
    /\ nReq' = nReq + 1
    /\ toolConfig' = bedrock_tools
    /\ requestMessages' = messages
    /\ \/ \E r \in Responses(nReq + 1, nRich < richMax) :
            /\ response' = r
            /\ nToolUse' = nToolUse + (IF r.stopReason = "tool_use" THEN 1 ELSE 0)
            /\ nSingle' = nSingle + (IF r.stopReason = "tool_use"
                                        /\ NumToolUse(r.content) = 1 THEN 1 ELSE 0)
            /\ nRich' = nRich + (IF IsRich(r) THEN 1 ELSE 0)
            /\ pc' = next
            /\ UNCHANGED error
       \/ /\ Raise("bedrock")
          /\ UNCHANGED <<response, tally>>

\* MCPClient.process_query, lines 113-118, and _process_response, lines
\* 121-123: the first request, then the loop starts with an empty
\* final_text and turn_count 0.
FirstRequest ==
    /\ pc = "first_request"
    /\ MakeBedrockRequest("loop")
    /\ turn_count' = 0
    /\ final_text' = <<>>
    /\ UNCHANGED <<query, envelope, session, closeCount, messages, items, idx,
                   result, nCalls, nIter, event, inputs, command, bedrock_tools>>

(***************************************************************************)
(* MCPClient._process_response, lines 127-165.                             *)
(***************************************************************************)
\* Where the for loop of line 130 goes after block i of content: to the next
\* block, or out of the loop to line 159.
AfterBlock(content, i) == IF i < Len(content) THEN "block" ELSE "budget"

\* Line 156: response['output']['message']['content'][0]['text'].
HasFirstText(content) == Len(content) > 0 /\ content[1].kind = "text"
FirstText(content) == content[1].val

\* Lines 127-157: the head of one iteration, which branches on the stop
\* reason of the current response.
LoopHead ==
    /\ pc = "loop"
    /\ nIter' = nIter + 1
    /\ CASE response.stopReason = "tool_use" ->
              /\ final_text' = Append(final_text, ReceivedToolUse)
              /\ items' = response.content
              /\ idx' = 1
              /\ pc' = AfterBlock(response.content, 0)
              /\ UNCHANGED <<result, error>>
         [] response.stopReason \in {"max_tokens", "stop_sequence", "content_filtered"} ->
              /\ Return(Append(final_text, Notice(response.stopReason)))
              /\ UNCHANGED <<items, idx, error>>
         [] response.stopReason = "end_turn" ->
              IF HasFirstText(response.content)
              THEN /\ Return(Append(final_text, Answer(FirstText(response.content))))
                   /\ UNCHANGED <<items, idx, error>>
              ELSE /\ Raise("KeyError")
                   /\ UNCHANGED <<items, idx, final_text, result>>
         [] OTHER ->
              /\ pc' = "budget"
              /\ UNCHANGED <<items, idx, final_text, result, error>>
    /\ UNCHANGED <<query, envelope, session, closeCount, messages, response,
                   turn_count, nReq, nCalls, tally, event, inputs, command, toolVars>>

\* Lines 131-134: a text block of the response being iterated.
TextItem ==
    /\ pc = "block"
    /\ items[idx].kind = "text"
    /\ final_text' = Append(final_text, Thinking(items[idx].val))
    /\ messages' = Append(messages, Message_assistant(items[idx].val))
    /\ idx' = idx + 1
    /\ pc' = AfterBlock(items, idx)
    /\ UNCHANGED <<query, envelope, session, closeCount, response, items,
                   turn_count, result, error, counters, event, inputs, command, toolVars>>

\* A _handle_tool_call that appends the result before the request.
ToolTurns_swapped(tool_use_id) ==
    <<Message_tool_result(tool_use_id), Message_tool_request(tool_use_id)>>

\* _handle_tool_call, lines 176-177: the two turns appended once the tool
\* has returned, the request first.
ToolTurns(tool_use_id) ==
    <<Message_tool_request(tool_use_id), Message_tool_result(tool_use_id)>>

\* Lines 135-139 and _handle_tool_call: a toolUse block.  session.call_tool
\* returns a result whose first content item has a text, returns one that
\* has none (Message.tool_result then raises, after line 176 has appended
\* the request), or raises.
\* A _handle_tool_call that appends the request before it calls the tool.
ToolCallHistory_eager(history, tool_use_id, outcome) ==
    IF outcome = "text"
    THEN history \o ToolTurns(tool_use_id)
    ELSE Append(history, Message_tool_request(tool_use_id))
\* A _handle_tool_call that inserts its turns at the front of the list.
ToolCallHistory_front(history, tool_use_id, outcome) ==
    IF outcome = "text" THEN ToolTurns(tool_use_id) \o history ELSE history
\* The list messages after _handle_tool_call: line 174 calls the tool, and
\* only then lines 176-177 append.
ToolCallHistory(history, tool_use_id, outcome) ==
    CASE outcome = "text" -> history \o ToolTurns(tool_use_id)
      [] outcome = "no_text" -> Append(history, Message_tool_request(tool_use_id))
      [] outcome = "raise" -> history
HandleToolCall ==
    /\ pc = "block"
    /\ items[idx].kind = "toolUse"
    /\ nCalls' = nCalls + 1
    /\ \E outcome \in {"text", "no_text", "raise"} :
        /\ messages' = ToolCallHistory(messages, items[idx].val, outcome)
        /\ CASE outcome = "text" ->
                /\ final_text' = Append(final_text, CallingTool(items[idx].val))
                /\ pc' = "request"
                /\ UNCHANGED error
             [] outcome = "no_text" ->
                /\ Raise("tool_result")
                /\ UNCHANGED final_text
             [] outcome = "raise" ->
                /\ Raise("call_tool")
                /\ UNCHANGED final_text
    /\ UNCHANGED <<query, envelope, session, closeCount, response, items, idx,
                   turn_count, result, nReq, nIter, tally, event, inputs, command, toolVars>>

\* Line 141: the request that follows a tool call, inside the toolUse branch
\* of the for loop; the loop goes on over the content it was started on.
RequestAfterTool ==
    /\ pc = "request"
    /\ MakeBedrockRequest(AfterBlock(items, idx))
    /\ idx' = idx + 1
    /\ UNCHANGED <<query, envelope, session, closeCount, messages, items,
                   turn_count, final_text, result, nCalls, nIter,
                   event, inputs, command, bedrock_tools>>

\* A budget check written > instead of >=.
BudgetSpent_late(count) == count > MAX_TURNS
\* A budget check that fires one turn early.
BudgetSpent_early(count) == count + 1 >= MAX_TURNS

\* Lines 159-164: count the turn; at MAX_TURNS append the notice and return.
BudgetSpent(count) == count >= MAX_TURNS
TurnBudget ==
    /\ pc = "budget"
    /\ turn_count' = turn_count + 1
    /\ IF BudgetSpent(turn_count')
       THEN Return(Append(final_text, MaxTurnsNotice))
       ELSE /\ pc' = "loop"
            /\ UNCHANGED <<final_text, result>>
    /\ UNCHANGED <<query, envelope, session, closeCount, messages, response,
                   items, idx, error, counters, event, inputs, command, toolVars>>

(***************************************************************************)
(* mcp_handler.process_query, lines 76-78, and handler, lines 45-59.       *)
(***************************************************************************)
\* The finally clause: MCPClient.cleanup closes the exit stack, which can
\* raise; then the handler builds the envelope from the result or from the
\* exception that reached it.
Cleanup ==
    /\ pc = "finally"
    /\ closeCount' = closeCount + 1
    /\ session' = "closed"
    /\ \E outcome \in {"ok", "raise"} :
        /\ error' = IF outcome = "raise" THEN "cleanup" ELSE error
        /\ status' = StatusCode(error')
        /\ body' = Body(error', query, result)
    /\ pc' = "done"
    /\ UNCHANGED <<query, messages, loopVars, counters, event, inputs, command, toolVars>>

Next ==
    \/ Handler
    \/ ConnectToServer
    \/ ListTools
    \/ FirstRequest
    \/ LoopHead
    \/ TextItem
    \/ HandleToolCall
    \/ RequestAfterTool
    \/ TurnBudget
    \/ Cleanup

Spec == Init /\ [][Next]_vars

\* MCPClient.connect_to_server takes any script path: the same program, with
\* a client that is given a path of any kind.
InitEndpoint ==
    /\ InitFrame
    /\ server_path \in EndpointKinds
    /\ tools = ServerTools
    /\ richMax = MaxRich
SpecEndpoint == InitEndpoint /\ [][Next]_vars

\* A tool host that advertises any list of tools: the tools of mcp_server.py
\* in any number and any order, up to MaxTools of them.  The conversion
\* does not read the responses of the model: one response of a query may
\* have a content that is not plain.
ToolLists ==
    UNION {[1..n -> {ServerTools[i] : i \in DOMAIN ServerTools}] : n \in 0..MaxTools}
InitTools ==
    /\ InitFrame
    /\ server_path = ServerPath
    /\ tools \in ToolLists
    /\ richMax = 1
SpecTools == InitTools /\ [][Next]_vars

(***************************************************************************)
(* The message history alone: the list messages and the three appends the  *)
(* client makes to it, applied with any text and any toolUseId.            *)
(***************************************************************************)
HistoryVals == {Tag(1, 1), Tag(2, 1)}

\* messages = [Message.user(query).__dict__]
InitHistory ==
    /\ pc = "history"
    /\ query = QueryText
    /\ messages = <<Message_user(QueryText)>>
    /\ status = 0 /\ body = NoBody /\ event = "none"
    /\ session = "none" /\ closeCount = 0 /\ command = "none"
    /\ response = NoResponse /\ items = <<>> /\ idx = 0
    /\ turn_count = 0 /\ final_text = <<>> /\ result = <<>>
    /\ error = "none"
    /\ nReq = 0 /\ nCalls = 0 /\ nIter = 0
    /\ nToolUse = 0 /\ nSingle = 0 /\ nRich = 0
    /\ bedrock_tools = <<>> /\ toolConfig = <<>> /\ requestMessages = <<>>
    /\ server_path = ServerPath /\ tools = ServerTools /\ richMax = MaxRich

notHistory ==
    <<pc, query, envelope, session, closeCount, loopVars, error, counters,
      event, inputs, command, toolVars>>

\* messages.append(Message.assistant(text).__dict__)
AppendAssistant(text) ==
    /\ pc = "history"
    /\ Len(messages) < MaxHistory
    /\ messages' = Append(messages, Message_assistant(text))
    /\ UNCHANGED notHistory

\* messages.append(Message.tool_request(tool_use_id, name, input).__dict__)
AppendToolRequest(tool_use_id) ==
    /\ pc = "history"
    /\ Len(messages) < MaxHistory
    /\ messages' = Append(messages, Message_tool_request(tool_use_id))
    /\ UNCHANGED notHistory

\* messages.append(Message.tool_result(tool_use_id, content).__dict__):
\* neither Message.tool_result nor list.append looks at the history.
AppendToolResult(tool_use_id) ==
    /\ pc = "history"
    /\ Len(messages) < MaxHistory
    /\ messages' = Append(messages, Message_tool_result(tool_use_id))
    /\ UNCHANGED notHistory

NextHistory ==
    \E v \in HistoryVals :
        \/ AppendAssistant(v)
        \/ AppendToolRequest(v)
        \/ AppendToolResult(v)

SpecHistory == InitHistory /\ [][NextHistory]_vars

(***************************************************************************)
(* Properties.                                                             *)
(***************************************************************************)
Last(seq) == seq[Len(seq)]
Count(seq, x) == Cardinality({i \in DOMAIN seq : seq[i] = x})

\* _process_response has returned its text.
Returned == result # <<>>
\* The number of iterations that took the tool_use branch.
ToolUseIterations == Count(final_text, ReceivedToolUse)

\* C1: a run of the loop starts at most 10 iterations and is never stuck
\* before the invocation is done, and when every response of the model is
\* tool_use the loop returns in iteration 10 with the max-turns notice as the
\* last fragment of the returned text.
C1_LoopBounded ==
    /\ nIter <= 10
    /\ pc # "done" => ENABLED Next
    /\ (Returned /\ nToolUse = nReq) =>
          /\ nIter = 10
          /\ Last(final_text) = MaxTurnsNotice
          /\ Last(result) = MaxTurnsNotice

\* Ten tool_use round trips, the last response asking for a tool again.
C1_Witness ==
    /\ pc = "done"
    /\ Returned
    /\ nToolUse = nReq
    /\ nIter = 10
    /\ NumToolUse(response.content) > 0
    /\ Last(result) = MaxTurnsNotice

\* C2: once the current response has a terminal stop reason, no step of the
\* loop issues a Bedrock request or dispatches a tool call.
C2_TerminalStopsWork ==
    [][response.stopReason \in TerminalReasons
          => nReq' = nReq /\ nCalls' = nCalls]_vars

\* C3: in a tool_use iteration the request is issued only after the last
\* block of the content has been processed, and exactly once, so that at the
\* head of every iteration the requests number 1 plus the tool_use
\* iterations done.
C3_OneRequestPerIteration ==
    /\ pc = "request" => idx = Len(items)
    /\ pc = "loop" => nReq = 1 + ToolUseIterations

\* C4: no request is issued in an iteration whose budget check ends the
\* loop: the loop is about to issue a request only when the count of the
\* iteration under way stays below the maximum.
C4_NoRequestBeforeFinalCheck ==
    pc = "request" => ~BudgetSpent(turn_count + 1)

\* C5: the turn counter stays within 0..10; it counts the iterations that
\* reached line 159 (a tool_use iteration adds exactly 1, an iteration that
\* ends on a terminal stop reason adds nothing), and the counter is 10
\* exactly when the loop has returned with the max-turns notice.
C5_TurnCounter ==
    /\ turn_count \in 0..10
    /\ pc = "loop" => turn_count = nIter
    /\ pc \in {"block", "request", "budget"} => turn_count = nIter - 1
    /\ Returned =>
          turn_count = IF Last(final_text) = MaxTurnsNotice THEN nIter ELSE nIter - 1
    /\ turn_count = 10 <=> (Returned /\ Last(final_text) = MaxTurnsNotice)

\* The counter has reached 10 in a query whose first response held two
\* tool requests.
C5_Witness ==
    /\ pc = "done"
    /\ turn_count = 10
    /\ nRich > 0
    /\ nCalls > nIter
    /\ Last(final_text) = MaxTurnsNotice

\* C6: every turn of the history that holds a tool result is preceded by a
\* turn that holds the tool request with the same toolUseId.
C6_ResultAfterRequest ==
    \A i \in DOMAIN messages :
        messages[i].kind = "toolResult" =>
            \E j \in 1..(i - 1) :
                /\ messages[j].kind = "toolUse"
                /\ messages[j].val = messages[i].val

\* The history holds the results of two tool calls of one response.
C6_Witness ==
    /\ Cardinality({i \in DOMAIN messages : messages[i].kind = "toolResult"}) >= 2
    /\ nIter = 1

\* The text blocks of a content list, and the last of them.
HasText(content) == \E j \in DOMAIN content : content[j].kind = "text"
FinalText(content) ==
    content[CHOOSE j \in DOMAIN content :
                /\ content[j].kind = "text"
                /\ \A k \in DOMAIN content : k > j => content[k].kind # "text"].val

\* C7: an iteration that finds stop reason end_turn and a content with a
\* text block returns without error, the final text block of the content
\* being the last fragment.
C7_EndTurnFinalText ==
    [][(pc = "loop" /\ response.stopReason = "end_turn" /\ HasText(response.content))
          => /\ pc' = "finally"
             /\ error' = "none"
             /\ Last(final_text') = Answer(FinalText(response.content))
             /\ Last(result') = Answer(FinalText(response.content))]_vars

\* The request turns of the history each followed by their result turn.
Paired ==
    \A i \in DOMAIN messages :
        messages[i].kind = "toolUse" =>
            /\ i < Len(messages)
            /\ messages[i + 1] = Message_tool_result(messages[i].val)
NumTurns(kind) == Cardinality({i \in DOMAIN messages : messages[i].kind = kind})

\* The responses so far are k tool_use responses of one tool request each,
\* then end_turn with a single text.
SinglesThenEndTurn(k) ==
    /\ nReq = k + 1
    /\ nSingle = k
    /\ response.stopReason = "end_turn"
    /\ Len(response.content) = 1
    /\ response.content[1].kind = "text"

\* C8: after k < 10 tool_use responses of one tool request each and then
\* end_turn with a text, the finished query has made k tool calls, k + 1
\* requests and k tool_use iterations, its history holds k request and result
\* pairs, and the returned text ends with that text (and is that text alone
\* when k = 0).
C8_ToolUseThenEndTurn ==
    \A k \in 0..9 :
        (pc \in {"finally", "done"} /\ SinglesThenEndTurn(k)) =>
            /\ error \in {"none", "cleanup"}
            /\ nCalls = k
            /\ ToolUseIterations = k
            /\ nIter = k + 1
            /\ NumTurns("toolUse") = k
            /\ NumTurns("toolResult") = k
            /\ Paired
            /\ Last(result) = Answer(response.content[1].val)
            /\ k = 0 => result = <<Answer(response.content[1].val)>>

\* Nine tool calls, then the answer, in the tenth iteration.
C8_Witness ==
    /\ pc = "done"
    /\ SinglesThenEndTurn(9)
    /\ nCalls = 9
    /\ status = 200

\* The errors of a tool call and of a Bedrock request.
LoopErrors == {"call_tool", "tool_result", "bedrock"}

ErrorLeavesLoop ==
    error \in LoopErrors => (pc \in {"finally", "done"} /\ result = <<>>)
NoWorkAfterError ==
    error \in LoopErrors
        => (nReq' = nReq /\ nCalls' = nCalls /\ result' = <<>>
            /\ error' # "none" /\ status' = 500)
\* C9: once a tool call or a request has failed, the loop is left with the
\* error and without a text, no further tool call or request is made, and
\* the caller of process_query gets the error.
C9_ErrorsPropagate == []ErrorLeavesLoop /\ [][NoWorkAfterError]_vars

\* A tool call has failed in the second iteration, and the handler has
\* answered 500.
C9_Witness ==
    /\ pc = "done"
    /\ error = "call_tool"
    /\ nCalls = 2
    /\ nReq = 2
    /\ status = 500

ClosedOnceWhenDone ==
    /\ closeCount <= 1
    /\ pc # "done" => (closeCount = 0 /\ session # "closed")
    /\ (pc = "done" /\ query # EmptyText) => (closeCount = 1 /\ session = "closed")
NoWorkAfterClose ==
    closeCount > 0 => (nReq' = nReq /\ nCalls' = nCalls /\ closeCount' = closeCount)
\* C10: cleanup is called exactly once for a query, whichever way the query
\* ends, and nothing of the query runs after it: it has not been called
\* before the invocation is done, and has been called once when a query
\* that was present is done.
C10_CloseExactlyOnce == []ClosedOnceWhenDone /\ [][NoWorkAfterClose]_vars

\* The tool host failed in the middle of a call, and the session was closed.
C10_Witness ==
    /\ pc = "done"
    /\ error = "call_tool"
    /\ nCalls = nReq
    /\ closeCount = 1
    /\ session = "closed"

(***************************************************************************)
(* Errors of the session, of the history and of the handler.               *)
(***************************************************************************)
\* C11: with a script path that is neither .py nor .js, connect_to_server
\* raises before it starts the tool host: no process is started, no
\* session is opened, list_tools is not called (no history, no converted
\* tools), no request is made and no tool is called; the error is the
\* ValueError, and the handler answers 500.
C11_UnsupportedEndpoint ==
    server_path = "other" =>
        /\ pc \in {"handler", "connect", "finally", "done"}
        /\ command = "none"
        /\ session # "open"
        /\ messages = <<>>
        /\ bedrock_tools = <<>>
        /\ nReq = 0
        /\ nCalls = 0
        /\ pc = "finally" => error = "ValueError"
        /\ (pc = "done" /\ query # EmptyText) =>
                (status = 500 /\ error \in {"ValueError", "cleanup"})

\* The path was of another kind, and the query has ended with the ValueError.
C11_Witness ==
    /\ pc = "done"
    /\ server_path = "other"
    /\ error = "ValueError"
    /\ status = 500
    /\ closeCount = 1

HasRequest(history, tool_use_id) ==
    \E j \in DOMAIN history :
        /\ history[j].kind = "toolUse"
        /\ history[j].val = tool_use_id
ResultAppended ==
    /\ Len(messages') = Len(messages) + 1
    /\ messages'[Len(messages')].kind = "toolResult"
DanglingRejected ==
    ResultAppended => HasRequest(messages, messages'[Len(messages')].val)
\* C12: no step adds to the history a tool result whose toolUseId has no
\* tool request earlier in the history (such an append is to fail with
\* DanglingToolResult and to leave the history as it was).
C12_DanglingRejected == [][DanglingRejected]_vars

(***************************************************************************)
(* The tools sent to the model.                                            *)
(***************************************************************************)
Converted == pc = "first_request" \/ nReq > 0
Faithful(listed, specs) ==
    /\ Len(specs) = Len(listed)
    /\ \A i \in DOMAIN listed :
        /\ DOMAIN specs[i] = {"toolSpec"}
        /\ DOMAIN specs[i].toolSpec = {"name", "description", "inputSchema"}
        /\ specs[i].toolSpec.name = listed[i].name
        /\ specs[i].toolSpec.description = listed[i].description
        /\ specs[i].toolSpec.inputSchema =
                [json |-> [type |-> "object",
                           properties |-> listed[i].inputSchema.properties,
                           required |-> listed[i].inputSchema.required]]
\* C13: the tools converted for the model have one toolSpec per tool the
\* host advertises, in the same order, with its name, its description and
\* a schema of type "object" with its properties and its required; and
\* every request of the query is sent these converted tools.
C13_ToolSpecFaithful ==
    /\ Converted => Faithful(tools, bedrock_tools)
    /\ nReq > 0 => toolConfig = bedrock_tools

\* Two different tools are advertised, and a second request has been sent.
C13_Witness ==
    /\ Len(tools) = 2
    /\ tools[1] # tools[2]
    /\ nReq = 2
    /\ Len(toolConfig) = 2

MissingEvents == {"absent", "null", "nokey", "empty"}
HandlerAnswer ==
    /\ pc # "done" => (status = 0 /\ body = NoBody)
    /\ (pc = "done" /\ event = "query") =>
        \/ /\ status = 200
           /\ error = "none"
           /\ Returned
           /\ closeCount = 1
           /\ body = [query |-> QueryText, result |-> result]
        \/ /\ status = 500
           /\ error # "none"
           /\ body = [message |-> "Error processing query", error |-> error]
OneEnvelope == status # 0 => (status' = status /\ body' = body)
\* C15: for an event with a query the handler returns one envelope and
\* never another: 200 with the query and the result of the loop when
\* nothing raised, cleanup included, and 500 with the error when
\* connect_to_server, list_tools, the loop or cleanup raised.
C15_OneEnvelope == []HandlerAnswer /\ [][OneEnvelope]_vars

\* The loop has returned its text, cleanup has raised, and the answer is 500.
C15_Witness ==
    /\ pc = "done"
    /\ Returned
    /\ error = "cleanup"
    /\ status = 500

(***************************************************************************)
(* The history and the text of one query.                                  *)
(***************************************************************************)
SuffixIs(seq, suffix) ==
    /\ Len(seq) >= Len(suffix)
    /\ SubSeq(seq, Len(seq) - Len(suffix) + 1, Len(seq)) = suffix
TurnsOf(block) ==
    IF block.kind = "text"
    THEN <<Message_assistant(block.val)>>
    ELSE <<Message_tool_request(block.val), Message_tool_result(block.val)>>
RECURSIVE Fold(_)
Fold(content) ==
    IF content = <<>> THEN <<>> ELSE TurnsOf(Head(content)) \o Fold(Tail(content))
\* The blocks of the content being iterated that have been gone through.
BlocksDone ==
    IF pc = "block" THEN SubSeq(items, 1, idx - 1) ELSE SubSeq(items, 1, idx)
FoldedInOrder ==
    pc \in {"block", "request"} => SuffixIs(messages, Fold(BlocksDone))
NoTurnTwice ==
    \A i, j \in DOMAIN messages : i # j => messages[i] # messages[j]
AllFoldedAtAnswer ==
    (Returned /\ Last(final_text).kind = "answer") =>
        ToolUseIterations = nToolUse
\* C17: the blocks of a tool_use response gone through so far have added
\* to the end of the history, in their order, one assistant text turn per
\* text block and a request turn followed by its result turn per toolUse
\* block; and each tool_use response is gone through once: no turn of a
\* block is in the history twice, and when the loop returns the final
\* answer every tool_use response received has had its iteration.
C17_FoldedOnce == FoldedInOrder /\ NoTurnTwice /\ AllFoldedAtAnswer

IsPrefix(short, long) ==
    /\ Len(short) <= Len(long)
    /\ SubSeq(long, 1, Len(short)) = short
SeededWithQuery ==
    /\ pc \in {"first_request", "loop", "block", "request", "budget"} =>
            messages # <<>>
    /\ messages # <<>> =>
        /\ messages[1].role = "user"
        /\ messages[1].kind = "text"
        /\ messages[1].val = query
    /\ IsPrefix(requestMessages, messages)
    /\ nReq > 0 => requestMessages # <<>>
AppendOnly ==
    /\ IsPrefix(messages, messages')
    /\ IsPrefix(requestMessages, requestMessages')
\* C18: the history of a query begins with the user turn of the query and
\* only grows at its end: every step leaves the turns it found where they
\* were, and the messages of each request are the messages of the request
\* before it with turns added at the end.
C18_AppendOnly == []SeededWithQuery /\ [][AppendOnly]_vars

\* A second request has been sent, with the two turns of a tool call after
\* the user turn that the first request was sent with.
C18_Witness ==
    /\ nReq = 2
    /\ Len(requestMessages) = 3
    /\ requestMessages[1] = Message_user(QueryText)
    /\ requestMessages[2].kind = "toolUse"

FinalKinds ==
    {"answer", "max_tokens", "stop_sequence", "content_filtered",
     "Max turns reached"}
FinalPositions == {i \in DOMAIN final_text : final_text[i].kind \in FinalKinds}
FragmentOf(block) ==
    IF block.kind = "text" THEN Thinking(block.val) ELSE CallingTool(block.val)
JoinedInOrder ==
    Returned =>
        /\ Len(result) = 2 * Len(final_text) - 1
        /\ \A i \in DOMAIN final_text : result[2 * i - 1] = final_text[i]
        /\ \A i \in 1..(Len(final_text) - 1) : result[2 * i] = Separator
FragmentsInBlockOrder ==
    pc \in {"block", "request"} =>
        SuffixIs(final_text,
                 <<ReceivedToolUse>>
                    \o [i \in DOMAIN BlocksDone |-> FragmentOf(BlocksDone[i])])
FinalFragmentLast ==
    /\ Returned => FinalPositions = {Len(final_text)}
    /\ ~Returned => FinalPositions = {}
TextState == JoinedInOrder /\ FragmentsInBlockOrder /\ FinalFragmentLast
TextGrows == IsPrefix(final_text, final_text')
\* C19: the text the loop returns is its fragments in the order they were
\* emitted, with a separator between two: fragments are only added at the
\* end, the notes and announcements of an iteration follow the order of
\* its blocks, and the final answer or the notice that ends the loop is
\* the last fragment and the only one of its kind.
C19_TextInEmissionOrder == []TextState /\ [][TextGrows]_vars

\* The loop has returned a note, an announcement and then the final answer.
C19_Witness ==
    /\ Returned
    /\ Len(final_text) = 4
    /\ final_text[2].kind = "Thinking"
    /\ final_text[3].kind = "Calling tool"
    /\ final_text[4].kind = "answer"

FailedCallUnrecorded ==
    error = "call_tool" =>
        /\ \A i \in DOMAIN messages :
                messages[i].kind \in {"toolUse", "toolResult"} =>
                    messages[i].val # items[idx].val
        /\ Paired
FailedCallAppendsNothing ==
    (error = "none" /\ error' = "call_tool") => messages' = messages
\* C20: when session.call_tool raises, the step leaves the history as it
\* was; while that error is the error of the query, the history has no
\* request turn and no result turn with the toolUseId of the failed call,
\* and every request turn in it is followed by its result turn.
C20_FailedCallLeavesHistory == []FailedCallUnrecorded /\ [][FailedCallAppendsNothing]_vars

\* A first tool call has left its two turns, a second has raised, and the
\* error is on its way out of the loop.
C20_Witness ==
    /\ pc = "finally"
    /\ error = "call_tool"
    /\ nCalls = 2
    /\ NumTurns("toolUse") = 1
    /\ NumTurns("toolResult") = 1

(***************************************************************************)
(* A response whose stop reason the loop has no branch for.                *)
(***************************************************************************)
Unhandled == response.stopReason = "other"
IdleOnUnhandled ==
    Unhandled =>
        /\ nReq' = nReq
        /\ nCalls' = nCalls
        /\ messages' = messages
OnlyNoticeReturned ==
    (Returned /\ Unhandled) =>
        /\ nIter = 10
        /\ nReq = 1
        /\ nCalls = 0
        /\ final_text = <<MaxTurnsNotice>>
\* C21 as it is stated: while the current response has a stop reason that
\* is none of the five the loop knows, no request is made, no tool is
\* called and nothing is appended to the history; the loop makes 10
\* iterations on that response and returns the max-turns notice alone.
C21_Stated == []OnlyNoticeReturned /\ [][IdleOnUnhandled]_vars

IdleIteration ==
    (Unhandled /\ pc \in {"loop", "budget"}) =>
        /\ nReq' = nReq
        /\ nCalls' = nCalls
        /\ messages' = messages
        /\ response' = response
        /\ (pc = "loop" => final_text' = final_text)
EndsAtMaxTurns ==
    (Returned /\ Unhandled) =>
        /\ nIter = 10
        /\ turn_count = 10
        /\ Last(final_text) = MaxTurnsNotice
        /\ nReq = 1 =>
            /\ final_text = <<MaxTurnsNotice>>
            /\ result = <<MaxTurnsNotice>>
            /\ messages = <<Message_user(query)>>
            /\ nCalls = 0
\* C21: an iteration that begins on a response whose stop reason is none
\* of the five makes no request and no tool call, appends nothing to the
\* history and keeps the response; the loop then returns at its tenth
\* iteration with the max-turns notice last, and when that response is the
\* first of the query the 10 iterations are all on it and the notice is
\* the whole text.
C21_UnhandledStopReason == []EndsAtMaxTurns /\ [][IdleIteration]_vars

\* The response to a tool result had an unhandled stop reason: the loop has
\* returned at its tenth iteration, after two requests and one tool call.
C21_Witness ==
    /\ Returned
    /\ Unhandled
    /\ nReq = 2
    /\ nCalls = 1
    /\ nIter = 10
    /\ Len(final_text) = 3

====
